---- MODULE Spec2Model ----
(***************************************************************************)
(* Model of the MIDI decoder of src/script.js (class MidiParser): the byte *)
(* cursor, the header decoder, the per-track event loop and the sequence   *)
(* assembly, with JavaScript's semantics for out-of-range typed-array      *)
(* reads (undefined) and for 32-bit shift / bitwise arithmetic.            *)
(***************************************************************************)
EXTENDS Integers, Sequences, FiniteSets, TLC

\* ------------------------------------------------------------------------
\* Bounds of the explored inputs
\* ------------------------------------------------------------------------
\* most delta+event items in a whole file (full-length files)
MaxEvents == 2
\* most track chunks in a file
MaxTracks == 2
\* most delta+event items in the files that are truncated, mis-tagged or
\* given a wrong declared chunk length
MaxCutEvents == 1

\* most FileReaders in flight at once
MaxPending == 2

\* ------------------------------------------------------------------------
\* JavaScript values and 32-bit integer operators
\* ------------------------------------------------------------------------
\* the value of data[p] for p outside the typed array
undefined == -1

\* Math.max() of no arguments is -Infinity: encoded as the least int32
NegInfinity == -2147483647 - 1

MinInt32 == -2147483647 - 1

\* ToInt32 of a byte read: undefined -> NaN -> 0
ToInt32(v) == IF v = undefined THEN 0 ELSE v

Pow2(k) == 2 ^ k

\* x & y on two's-complement integers
RECURSIVE BitAnd(_, _)
BitAnd(x, y) ==
    IF x = 0 \/ y = 0 THEN 0
    ELSE IF x = -1 THEN y
    ELSE IF y = -1 THEN x
    ELSE 2 * BitAnd(x \div 2, y \div 2) + (x % 2) * (y % 2)

\* x | y on two's-complement integers
RECURSIVE BitOr(_, _)
BitOr(x, y) ==
    IF x = 0 THEN y
    ELSE IF y = 0 THEN x
    ELSE IF x = -1 \/ y = -1 THEN -1
    ELSE 2 * BitOr(x \div 2, y \div 2)
         + (IF x % 2 = 1 \/ y % 2 = 1 THEN 1 ELSE 0)

\* x << k on int32: the low 32-k bits move up, bit 31-k becomes the sign
Shl(x, k) ==
    LET low  == x % Pow2(31 - k)
        sign == (x \div Pow2(31 - k)) % 2
    IN  low * Pow2(k) + (IF sign = 1 THEN MinInt32 ELSE 0)

\* Math.max(...S): -Infinity for no arguments
MathMax(S) ==
    IF S = {} THEN NegInfinity
    ELSE CHOOSE m \in S : \A x \in S : x <= m

RECURSIVE SumSeq(_)
SumSeq(s) == IF s = <<>> THEN 0 ELSE Head(s) + SumSeq(Tail(s))

RECURSIVE Concat(_)
Concat(ss) == IF ss = <<>> THEN <<>> ELSE Head(ss) \o Concat(Tail(ss))

\* ------------------------------------------------------------------------
\* Input files
\* ------------------------------------------------------------------------
MThd == <<77, 84, 104, 100>>
MTrk == <<77, 84, 114, 107>>
XThd == <<88, 84, 104, 100>>
XTrk == <<88, 84, 114, 107>>

\* delta time + event body, as bytes
Items == <<
    <<0, 144, 60, 64>>,                     \* +0   Note-On 60 vel 64
    <<96, 128, 60, 0>>,                     \* +96  Note-Off 60
    <<0, 255, 47, 0>>,                      \* +0   meta end-of-track
    <<0, 62, 64>>,                          \* +0   data bytes only (running status)
    <<96, 144, 60, 0>>,                     \* +96  Note-On 60 vel 0
    <<129, 0, 176, 7, 100>>,                \* +128 control change
    <<0, 255, 1, 2, 65, 66>>,               \* +0   meta text, 2 payload bytes
    <<96, 240, 1, 247>>,                    \* +96  sysex, 1 payload byte
    <<143, 255, 255, 255, 32, 128, 60, 0>>, \* 5-byte delta (int32 -96), Note-Off 60
    <<255, 255, 255, 127, 144, 62, 64>>,    \* +2^28-1 Note-On 62
    <<128, 128, 128, 129, 0, 128, 62, 0>>,  \* +128 in 5 bytes, Note-Off 62
    <<0, 247, 0>>                           \* +0   escape, empty payload
>>

NItems == Len(Items)

ItemSeqs(n) == UNION {[1..k -> 1..NItems] : k \in 0..n}

Body(s) == Concat([j \in 1..Len(s) |-> Items[s[j]]])

\* big-endian fields of the small non-negative values the files use
Int16BE(n) == <<n \div 256, n % 256>>
Int32BE(n) == <<0, 0, n \div 256, n % 256>>

HeaderChunk(tag, n) == tag \o Int32BE(6) \o Int16BE(0) \o Int16BE(n) \o Int16BE(96)

TrackChunk(tag, adj, body) ==
    tag \o Int32BE(IF Len(body) + adj < 0 THEN 0 ELSE Len(body) + adj) \o body

\* non-decreasing split points of an item sequence of length n into nt tracks
Splits(nt, n) ==
    {c \in [0..nt -> 0..n] :
        /\ c[0] = 0
        /\ c[nt] = n
        /\ \A t \in 1..nt : c[t - 1] <= c[t]}

\* the file with nt tracks holding the items s split at c; track `bad` (0: none)
\* carries a wrong tag, the last track declares its length off by adj
File(htag, nt, s, c, bad, adj) ==
    HeaderChunk(htag, nt) \o
    Concat([t \in 1..nt |->
        TrackChunk(IF t = bad THEN XTrk ELSE MTrk,
                   IF t = nt THEN adj ELSE 0,
                   Body(SubSeq(s, c[t - 1] + 1, c[t])))])

\* the two concrete scenarios of the specification's testable properties:
\* Note-On 60/64, +96 Note-Off 60, end-of-track
ScenarioNotes == File(MThd, 1, <<1, 2, 3>>, [t \in 0..1 |-> 3 * t], 0, 0)
\* Note-On 60/64, data bytes 62 64 without a status byte, +96 Note-Off 60
ScenarioRunning == File(MThd, 1, <<1, 4, 2>>, [t \in 0..1 |-> 3 * t], 0, 0)

\* a meta event whose 5-byte length 8F FF FF FF 78 is the int32 -8: the 8 bytes
\* of the event, delta time included
BackwardMeta == <<0, 255, 47, 143, 255, 255, 255, 120>>
\* one track holding that event alone
LoopingFile == HeaderChunk(MThd, 1) \o TrackChunk(MTrk, 0, BackwardMeta)

\* a header chunk of declared length 14: the three fields and 8 reserved bytes
ReservedBytes == <<0, 0, 0, 0, 0, 0, 0, 0>>
LongHeaderChunk(n) ==
    MThd \o Int32BE(6 + Len(ReservedBytes)) \o Int16BE(0) \o Int16BE(n)
         \o Int16BE(96) \o ReservedBytes
\* the file of nt well-framed tracks behind such a header
LongHeaderFile(nt, s, c) ==
    LET f == File(MThd, nt, s, c, 0, 0)
    IN  LongHeaderChunk(nt) \o SubSeq(f, 15, Len(f))

\* chunk-length fields whose first byte is 0x80 or more
HighLengths == {<<128, 0, 0, 4>>, <<255, 255, 255, 252>>}
\* the file of one track with the length field lb
HighLengthFile(lb, s) == HeaderChunk(MThd, 1) \o MTrk \o lb \o Body(s)

\* two tracks: sysex and a Note-On 62 at tick 96 + 2^28-1; a Note-Off 62 at 128
CrossTrackFile == File(MThd, 2, <<8, 10, 11>>, [t \in 0..2 |-> t + (IF t = 0 THEN 0 ELSE 1)], 0, 0)

\* the files the user can select
UserFiles == {[name |-> "notes.mid", bytes |-> ScenarioNotes],
              [name |-> "running.mid", bytes |-> ScenarioRunning],
              [name |-> "cross.mid", bytes |-> CrossTrackFile]}

\* the values of the octaveOffset and tempo inputs: tempo as <<num, den>>
OctaveOffsets == {-1, 0}
Tempos == {<<1, 1>>, <<1, 2>>}

\* declared-length errors of the last track, in bytes
LenAdjust == {-1, 0, 1}

\* JavaScript's null (midiData, currentMidiFile)
Null == [null |-> TRUE]

\* ------------------------------------------------------------------------
\* State
\* ------------------------------------------------------------------------
VARIABLES
    data,           \* this.data
    pos,            \* this.pos
    pc,             \* control point of parse() / parseTrack()
    header,         \* parse: header (the 4 tag bytes)
    format,         \* parse: format
    trackCount,     \* parse: trackCount
    division,       \* parse: division
    tracks,         \* parse: tracks
    i,              \* parse: loop index
    trackHeader,    \* parseTrack: trackHeader (the 4 tag bytes)
    trackEnd,       \* parseTrack: trackEnd
    events,         \* parseTrack: events
    currentTime,    \* parseTrack: currentTime
    runningStatus,  \* parseTrack: runningStatus
    result,         \* the object parse() returns
    deltaSum,       \* history: the sum of the delta times read in this track
    iterStart,      \* history: this.pos at the last test of the while condition
    midiData,       \* let midiData
    currentMidiFile,\* let currentMidiFile
    readers,        \* the FileReaders whose onload has not run yet
    convertDisabled,\* convertBtn.disabled
    notes,          \* the notes of the last conversion (rendered into output)
    outputShown     \* output, stats, copyBtn, downloadBtn, pianoPreview displayed

vars == <<data, pos, pc, header, format, trackCount, division, tracks, i,
          trackHeader, trackEnd, events, currentTime, runningStatus, result,
          deltaSum, iterStart, midiData, currentMidiFile, readers,
          convertDisabled, notes, outputShown>>

uiVars == <<midiData, currentMidiFile, readers, convertDisabled, notes, outputShown>>

\* ------------------------------------------------------------------------
\* Cursor primitives
\* ------------------------------------------------------------------------
\* this.data[p]
ByteAt(p) == IF p >= 0 /\ p < Len(data) THEN data[p + 1] ELSE undefined

\* TypedArray.prototype.slice index normalisation
SliceIndex(k) ==
    IF k < 0 THEN (IF Len(data) + k < 0 THEN 0 ELSE Len(data) + k)
    ELSE IF k > Len(data) THEN Len(data) ELSE k

\* readBytes(n) called with this.pos = p
ReadBytes(p, n) ==
    [value |-> SubSeq(data, SliceIndex(p) + 1, SliceIndex(p + n)),
     pos   |-> p + n]

\* mutant of Accumulate: the continuation bit is not masked off
AccumulateNoMask(res, byte) == BitOr(Shl(res, 7), ToInt32(byte))

\* line 19: result = (result << 7) | (byte & 0x7f)
Accumulate(res, byte) == BitOr(Shl(res, 7), BitAnd(ToInt32(byte), 127))

\* lines 17-20: the do-while of readVarLength
RECURSIVE VarLoop(_, _)
VarLoop(res, p) ==
    LET byte == ByteAt(p)
        r    == Accumulate(res, byte)
    IN  IF BitAnd(ToInt32(byte), 128) # 0
        THEN VarLoop(r, p + 1)
        ELSE [value |-> r, pos |-> p + 1]

\* readVarLength() called with this.pos = p
ReadVarLength(p) == VarLoop(0, p)

\* readInt16() called with this.pos = p
ReadInt16(p) ==
    [value |-> BitOr(Shl(ToInt32(ByteAt(p)), 8), ToInt32(ByteAt(p + 1))),
     pos   |-> p + 2]

\* readInt32() called with this.pos = p
ReadInt32(p) ==
    [value |-> BitOr(BitOr(BitOr(Shl(ToInt32(ByteAt(p)), 24),
                                 Shl(ToInt32(ByteAt(p + 1)), 16)),
                           Shl(ToInt32(ByteAt(p + 2)), 8)),
                     ToInt32(ByteAt(p + 3))),
     pos   |-> p + 4]

\* ------------------------------------------------------------------------
\* parse()
\* ------------------------------------------------------------------------
Init ==
    /\ \/ \E nt \in 0..MaxTracks, s \in ItemSeqs(MaxEvents) :
            \E c \in Splits(nt, Len(s)) :
                data = File(MThd, nt, s, c, 0, 0)
       \/ \E nt \in 0..MaxTracks, s \in ItemSeqs(MaxCutEvents) :
            \E c \in Splits(nt, Len(s)) :
                \E cut \in 0..Len(File(MThd, nt, s, c, 0, 0)) :
                    data = SubSeq(File(MThd, nt, s, c, 0, 0), 1, cut)
       \/ \E nt \in 0..MaxTracks, s \in ItemSeqs(MaxCutEvents),
             htag \in {MThd, XThd}, adj \in LenAdjust :
            \E c \in Splits(nt, Len(s)), bad \in 0..nt :
                data = File(htag, nt, s, c, bad, adj)
       \/ data \in {ScenarioNotes, ScenarioRunning, LoopingFile}
       \/ \E nt \in 0..MaxTracks, s \in ItemSeqs(MaxCutEvents) :
            \E c \in Splits(nt, Len(s)) :
                data = LongHeaderFile(nt, s, c)
       \/ \E lb \in HighLengths, s \in ItemSeqs(MaxCutEvents) :
            data = HighLengthFile(lb, s)
    /\ pos = 0
    /\ pc = "parse"
    /\ header = <<>>
    /\ format = 0
    /\ trackCount = 0
    /\ division = 0
    /\ tracks = <<>>
    /\ i = 0
    /\ trackHeader = <<>>
    /\ trackEnd = 0
    /\ events = <<>>
    /\ currentTime = 0
    /\ runningStatus = 0
    /\ result = <<>>
    /\ deltaSum = 0
    /\ iterStart = 0
    /\ midiData = Null
    /\ currentMidiFile = Null
    /\ readers = <<>>
    /\ convertDisabled = TRUE
    /\ notes = <<>>
    /\ outputShown = FALSE

trackVars == <<trackHeader, trackEnd, events, currentTime, runningStatus, deltaSum,
               iterStart>>
headVars == <<header, format, trackCount, division>>

\* lines 25-31: the header fields, the empty tracks list, i = 0
ParseHeader ==
    /\ pc = "parse"
    /\ LET h  == ReadBytes(pos, 4)
           hl == ReadInt32(h.pos)
           f  == ReadInt16(hl.pos)
           tc == ReadInt16(f.pos)
           d  == ReadInt16(tc.pos)
       IN  /\ header' = h.value
           /\ format' = f.value
           /\ trackCount' = tc.value
           /\ division' = d.value
           /\ pos' = d.pos
    /\ tracks' = <<>>
    /\ i' = 0
    /\ pc' = "for"
    /\ UNCHANGED <<data, result>>
    /\ UNCHANGED trackVars
    /\ UNCHANGED uiVars

\* line 32 (i < trackCount) and lines 46-52: entry of parseTrack
ParseTrackStart ==
    /\ pc = "for"
    /\ i < trackCount
    /\ LET th == ReadBytes(pos, 4)
           tl == ReadInt32(th.pos)
       IN  /\ trackHeader' = th.value
           /\ pos' = tl.pos
           /\ trackEnd' = tl.pos + tl.value
           /\ iterStart' = tl.pos
    /\ events' = <<>>
    /\ currentTime' = 0
    /\ runningStatus' = 0
    /\ deltaSum' = 0
    /\ pc' = "while"
    /\ UNCHANGED <<data, tracks, i, result>>
    /\ UNCHANGED headVars
    /\ UNCHANGED uiVars

\* mutant of AddDelta: the delta is assigned, not accumulated
AddDeltaAssign(t, d) == d

\* line 56: currentTime += deltaTime
AddDelta(t, d) == t + d

\* lines 54-56: one more event, its delta time
ReadDelta ==
    /\ pc = "while"
    /\ pos < trackEnd
    /\ LET dt == ReadVarLength(pos)
       IN  /\ currentTime' = AddDelta(currentTime, dt.value)
           /\ deltaSum' = deltaSum + dt.value
           /\ iterStart' = pos
           /\ pos' = dt.pos
    /\ pc' = "event"
    /\ UNCHANGED <<data, tracks, i, result, trackHeader, trackEnd, events,
                   runningStatus>>
    /\ UNCHANGED headVars
    /\ UNCHANGED uiVars

\* lines 60-64: meta event
MetaEvent ==
    /\ pc = "event"
    /\ ByteAt(pos) = 255
    /\ LET len == ReadVarLength(pos + 2)
       IN  pos' = ReadBytes(len.pos, len.value).pos
    /\ pc' = "while"
    /\ UNCHANGED <<data, tracks, i, result, trackHeader, trackEnd, events,
                   currentTime, runningStatus, deltaSum>>
    /\ UNCHANGED headVars
    /\ UNCHANGED iterStart
    /\ UNCHANGED uiVars

\* lines 65-68: system-exclusive / escape event
SysExEvent ==
    /\ pc = "event"
    /\ ByteAt(pos) \in {240, 247}
    /\ LET len == ReadVarLength(pos + 1)
       IN  pos' = ReadBytes(len.pos, len.value).pos
    /\ pc' = "while"
    /\ UNCHANGED <<data, tracks, i, result, trackHeader, trackEnd, events,
                   currentTime, runningStatus, deltaSum>>
    /\ UNCHANGED headVars
    /\ UNCHANGED iterStart
    /\ UNCHANGED uiVars

\* mutant of Classify: a Note-On of velocity 0 stays a Note-On
ClassifyNoVelocityZero(rs, data1, data2, time) ==
    LET status == BitAnd(rs, 240)
    IN  IF status = 144 /\ data2 # undefined
        THEN <<[time |-> time, type |-> "noteOn", note |-> data1, velocity |-> data2]>>
        ELSE IF status = 128
        THEN <<[time |-> time, type |-> "noteOff", note |-> data1]>>
        ELSE <<>>

\* lines 75-91: the events a channel message adds
Classify(rs, data1, data2, time) ==
    LET status == BitAnd(rs, 240)
    IN  IF status = 144 /\ data2 # undefined /\ data2 > 0
        THEN <<[time |-> time, type |-> "noteOn", note |-> data1, velocity |-> data2]>>
        ELSE IF status = 128 \/ (status = 144 /\ data2 = 0)
        THEN <<[time |-> time, type |-> "noteOff", note |-> data1]>>
        ELSE <<>>

\* line 69: byte & 0x80
IsStatusByte(byte) == BitAnd(ToInt32(byte), 128) # 0

\* lines 69-91: channel message with its own status byte
StatusEvent ==
    /\ pc = "event"
    /\ ByteAt(pos) \notin {255, 240, 247}
    /\ IsStatusByte(ByteAt(pos))
    /\ runningStatus' = ByteAt(pos)
    /\ events' = events \o Classify(ByteAt(pos), ByteAt(pos + 1), ByteAt(pos + 2),
                                    currentTime)
    /\ pos' = pos + 3
    /\ pc' = "while"
    /\ UNCHANGED <<data, tracks, i, result, trackHeader, trackEnd, currentTime,
                   deltaSum>>
    /\ UNCHANGED headVars
    /\ UNCHANGED iterStart
    /\ UNCHANGED uiVars

\* lines 92-95: the byte is no status byte; two bytes are read and dropped
DataEvent ==
    /\ pc = "event"
    /\ ByteAt(pos) \notin {255, 240, 247}
    /\ ~IsStatusByte(ByteAt(pos))
    /\ pos' = pos + 2
    /\ pc' = "while"
    /\ UNCHANGED <<data, tracks, i, result, trackHeader, trackEnd, events,
                   currentTime, runningStatus, deltaSum>>
    /\ UNCHANGED headVars
    /\ UNCHANGED iterStart
    /\ UNCHANGED uiVars

\* lines 54, 98 and 33: the loop ends, the track is pushed, i++
ParseTrackReturn ==
    /\ pc = "while"
    /\ ~(pos < trackEnd)
    /\ tracks' = Append(tracks, [events |-> events])
    /\ i' = i + 1
    /\ pc' = "for"
    /\ UNCHANGED <<data, pos, result>>
    /\ UNCHANGED trackVars
    /\ UNCHANGED headVars
    /\ UNCHANGED uiVars

\* line 41: Math.max(...t.events.map(e => e.time), 0)
TrackMax(t) == MathMax({t.events[k].time : k \in 1..Len(t.events)} \cup {0})

\* line 41: Math.max(...tracks.map(...))
MaxTime(ts) == MathMax({TrackMax(ts[k]) : k \in 1..Len(ts)})

\* lines 32 (loop exit) and 36-42
ParseReturn ==
    /\ pc = "for"
    /\ ~(i < trackCount)
    /\ result' = [format |-> format, trackCount |-> trackCount,
                  division |-> division, tracks |-> tracks,
                  maxTime |-> MaxTime(tracks)]
    /\ pc' = "done"
    /\ UNCHANGED <<data, pos, tracks, i>>
    /\ UNCHANGED trackVars
    /\ UNCHANGED headVars
    /\ UNCHANGED uiVars

Next ==
    \/ ParseHeader
    \/ ParseTrackStart
    \/ ReadDelta
    \/ MetaEvent
    \/ SysExEvent
    \/ StatusEvent
    \/ DataEvent
    \/ ParseTrackReturn
    \/ ParseReturn

Spec == Init /\ [][Next]_vars

\* ------------------------------------------------------------------------
\* Note extraction
\* ------------------------------------------------------------------------
NOTE_NAMES == <<"C", "C#", "D", "D#", "E", "F", "F#", "G", "G#", "A", "A#", "B">>

ROBLOX_KEYS == [n \in {NOTE_NAMES[k] : k \in 1..12} |->
    CASE n = "C" -> "1" [] n = "C#" -> "Q" [] n = "D" -> "2" [] n = "D#" -> "W"
      [] n = "E" -> "3" [] n = "F" -> "4" [] n = "F#" -> "R" [] n = "G" -> "5"
      [] n = "G#" -> "T" [] n = "A" -> "6" [] n = "A#" -> "Y" [] n = "B" -> "7"]

\* a key that is null or undefined: `if (key)` fails
NoKey == ""

\* midiNoteToKey(note, octaveOffset)
MidiNoteToKey(note, octaveOffset) ==
    IF note = undefined THEN NoKey
    ELSE LET octave == (note \div 12) - 1 + octaveOffset
         IN  IF octave < 4 \/ octave > 8 THEN NoKey
             ELSE ROBLOX_KEYS[NOTE_NAMES[(note % 12) + 1]]

\* getMidiNoteName(note): the name and the octave it concatenates
GetMidiNoteName(note) == <<NOTE_NAMES[(note % 12) + 1], (note \div 12) - 1>>

\* Math.round(n * tempoMultiplier), the multiplier being tempo[1] / tempo[2]
RoundTimes(n, tempo) ==
    LET q == (n * tempo[1]) \div tempo[2]
        r == (n * tempo[1]) % tempo[2]
    IN  q + (IF 2 * r >= tempo[2] THEN 1 ELSE 0)

\* noteOnTimes[note] = time
SetNoteOn(noteOnTimes, note, time) ==
    [x \in (DOMAIN noteOnTimes) \cup {note} |->
        IF x = note THEN time ELSE noteOnTimes[x]]

\* delete noteOnTimes[note]
DeleteNoteOn(noteOnTimes, note) ==
    [x \in (DOMAIN noteOnTimes) \ {note} |-> noteOnTimes[x]]

\* lines 242-250: the note a Note-Off and its Note-On's time give
PairedNote(event, startTime, key, tempo) ==
    [key      |-> key,
     time     |-> RoundTimes(startTime, tempo),
     duration |-> RoundTimes(event.time - startTime, tempo),
     note     |-> GetMidiNoteName(event.note),
     midi     |-> event.note]

\* lines 232-255: the two forEach loops, over the events of all tracks in order
RECURSIVE ExtractLoop(_, _, _, _, _)
ExtractLoop(evs, noteOnTimes, acc, octaveOffset, tempo) ==
    IF evs = <<>> THEN acc
    ELSE LET event == Head(evs)
             key   == MidiNoteToKey(event.note, octaveOffset)
         IN  IF event.type = "noteOn"
             THEN ExtractLoop(Tail(evs),
                              IF key # NoKey
                              THEN SetNoteOn(noteOnTimes, event.note, event.time)
                              ELSE noteOnTimes,
                              acc, octaveOffset, tempo)
             ELSE IF event.type = "noteOff" /\ key # NoKey
                     /\ event.note \in DOMAIN noteOnTimes
             THEN ExtractLoop(Tail(evs),
                              DeleteNoteOn(noteOnTimes, event.note),
                              Append(acc, PairedNote(event, noteOnTimes[event.note],
                                                     key, tempo)),
                              octaveOffset, tempo)
             ELSE ExtractLoop(Tail(evs), noteOnTimes, acc, octaveOffset, tempo)

\* x put behind the last element of the sorted ns whose time is not later
RECURSIVE InsertByTime(_, _)
InsertByTime(ns, x) ==
    IF ns = <<>> THEN <<x>>
    ELSE IF x.time < Head(ns).time THEN <<x>> \o ns
    ELSE <<Head(ns)>> \o InsertByTime(Tail(ns), x)

\* line 257: notes.sort((a, b) => a.time - b.time), a stable sort
RECURSIVE SortByTime(_)
SortByTime(ns) ==
    IF ns = <<>> THEN <<>>
    ELSE InsertByTime(SortByTime(SubSeq(ns, 1, Len(ns) - 1)), ns[Len(ns)])

\* extractNotes(midiData, octaveOffset, tempoMultiplier)
ExtractNotes(md, octaveOffset, tempo) ==
    SortByTime(ExtractLoop(Concat([k \in 1..Len(md.tracks) |-> md.tracks[k].events]),
                           <<>>, <<>>, octaveOffset, tempo))

\* ------------------------------------------------------------------------
\* The page: file selection, FileReader callbacks, convert and clear
\* ------------------------------------------------------------------------
parserVars == <<data, pos, pc, tracks, i, result>>

\* lines 157-161, 172-178 and 180-197: a file is chosen or dropped;
\* loadMidiFile records it and starts a FileReader
LoadMidiFile(file) ==
    /\ pc = "idle"
    /\ Len(readers) < MaxPending
    /\ currentMidiFile' = file
    /\ readers' = Append(readers, file)
    /\ UNCHANGED <<midiData, convertDisabled, notes, outputShown>>
    /\ UNCHANGED parserVars
    /\ UNCHANGED headVars
    /\ UNCHANGED trackVars

\* lines 185-188: the onload callback of reader k runs; it constructs a
\* MidiParser on the bytes read and calls parse(). No other handler runs
\* before the callback has returned.
OnLoadStart(k) ==
    /\ pc = "idle"
    /\ k \in 1..Len(readers)
    /\ readers' = SubSeq(readers, 1, k - 1) \o SubSeq(readers, k + 1, Len(readers))
    /\ data' = readers[k].bytes
    /\ pos' = 0
    /\ pc' = "parse"
    /\ header' = <<>>
    /\ format' = 0
    /\ trackCount' = 0
    /\ division' = 0
    /\ tracks' = <<>>
    /\ i' = 0
    /\ trackHeader' = <<>>
    /\ trackEnd' = 0
    /\ events' = <<>>
    /\ currentTime' = 0
    /\ runningStatus' = 0
    /\ result' = <<>>
    /\ deltaSum' = 0
    /\ iterStart' = 0
    /\ UNCHANGED <<midiData, currentMidiFile, convertDisabled, notes, outputShown>>

\* lines 188-190: parse() has returned into the callback
OnLoadEnd ==
    /\ pc = "done"
    /\ midiData' = result
    /\ convertDisabled' = FALSE
    /\ pc' = "idle"
    /\ UNCHANGED <<data, pos, tracks, i, result>>
    /\ UNCHANGED <<currentMidiFile, readers, notes, outputShown>>
    /\ UNCHANGED headVars
    /\ UNCHANGED trackVars

\* lines 200-226: the convert button, enabled, is clicked
ConvertClick(octaveOffset, tempo) ==
    /\ pc = "idle"
    /\ ~convertDisabled
    /\ midiData # Null
    /\ notes' = ExtractNotes(midiData, octaveOffset, tempo)
    /\ outputShown' = TRUE
    /\ UNCHANGED <<midiData, currentMidiFile, readers, convertDisabled>>
    /\ UNCHANGED parserVars
    /\ UNCHANGED headVars
    /\ UNCHANGED trackVars

\* lines 313-324: the clear button is clicked
ClearClick ==
    /\ pc = "idle"
    /\ midiData' = Null
    /\ currentMidiFile' = Null
    /\ outputShown' = FALSE
    /\ convertDisabled' = TRUE
    /\ UNCHANGED <<readers, notes>>
    /\ UNCHANGED parserVars
    /\ UNCHANGED headVars
    /\ UNCHANGED trackVars

\* the page after the script has run: no parser exists yet
InitUI ==
    /\ data = <<>>
    /\ pos = 0
    /\ pc = "idle"
    /\ header = <<>>
    /\ format = 0
    /\ trackCount = 0
    /\ division = 0
    /\ tracks = <<>>
    /\ i = 0
    /\ trackHeader = <<>>
    /\ trackEnd = 0
    /\ events = <<>>
    /\ currentTime = 0
    /\ runningStatus = 0
    /\ result = <<>>
    /\ deltaSum = 0
    /\ iterStart = 0
    /\ midiData = Null
    /\ currentMidiFile = Null
    /\ readers = <<>>
    /\ convertDisabled = TRUE
    /\ notes = <<>>
    /\ outputShown = FALSE

NextUI ==
    \/ \E file \in UserFiles : LoadMidiFile(file)
    \/ \E k \in 1..MaxPending : OnLoadStart(k)
    \/ ParseHeader
    \/ ParseTrackStart
    \/ ReadDelta
    \/ MetaEvent
    \/ SysExEvent
    \/ StatusEvent
    \/ DataEvent
    \/ ParseTrackReturn
    \/ ParseReturn
    \/ OnLoadEnd
    \/ \E octaveOffset \in OctaveOffsets, tempo \in Tempos :
            ConvertClick(octaveOffset, tempo)
    \/ ClearClick

SpecUI == InitUI /\ [][NextUI]_vars

TypeOK == pc \in {"idle", "parse", "for", "while", "event", "done"}

\* ------------------------------------------------------------------------
\* Properties
\* ------------------------------------------------------------------------
NoteOn(t, n, v) == [time |-> t, type |-> "noteOn", note |-> n, velocity |-> v]
NoteOff(t, n) == [time |-> t, type |-> "noteOff", note |-> n]

\* the message kind of a status byte, S & 0xF0
KindOf(S) == (S \div 16) * 16

\* the events the specification's rules give for status S and two data bytes
Expected(S, d1, d2, t) ==
    IF KindOf(S) = 144 /\ d2 > 0 THEN <<NoteOn(t, d1, d2)>>
    ELSE IF KindOf(S) = 128 \/ (KindOf(S) = 144 /\ d2 = 0) THEN <<NoteOff(t, d1)>>
    ELSE <<>>

\* the event at the cursor starts with a byte of the buffer whose high bit is clear
LeadingDataByte == pc = "event" /\ ByteAt(pos) \in 0..127

\* C1: an event that starts with a data byte while a channel status is
\* established in this track is decoded as data1/data2 under that status and
\* adds the Note-On / Note-Off the rules give for it.
C1_RunningStatusDecoded ==
    [][(LeadingDataByte /\ runningStatus # 0 /\ pos + 1 < Len(data))
        => events' = events \o Expected(runningStatus, ByteAt(pos), ByteAt(pos + 1),
                                        currentTime)]_vars

\* C2: parse() returns a Sequence only when no read ran past the end of the
\* buffer: the buffer holds the 14 header bytes and the cursor, which the reads
\* move forward over the bytes they take, is not beyond the buffer's length.
C2_TruncationFails ==
    pc = "done" => (Len(data) >= 14 /\ pos <= Len(data))

NoEvents(ts) == \A k \in 1..Len(ts) : ts[k].events = <<>>

\* C3: a returned Sequence with trackCount = 0 has no tracks and maxTime 0,
\* and one whose tracks hold no events has maxTime 0.
C3_EmptySequence ==
    pc = "done" =>
        /\ (result.trackCount = 0 => (result.tracks = <<>> /\ result.maxTime = 0))
        /\ (NoEvents(result.tracks) => result.maxTime = 0)

NonDecreasing(evs) == \A k \in 1..(Len(evs) - 1) : evs[k].time <= evs[k + 1].time

\* C4: the times of the events of every track are non-decreasing in emission
\* order, in the track being decoded and in the tracks already returned.
C4_Monotone ==
    /\ NonDecreasing(events)
    /\ \A k \in 1..Len(tracks) : NonDecreasing(tracks[k].events)

\* ---- variable-length quantities, as the format defines them ----
\* the bytes at p..p+n-1 are an encoding: n-1 continuation bytes and a last byte
IsEncoding(p, n) ==
    /\ p >= 0 /\ n >= 1 /\ p + n <= Len(data)
    /\ \A k \in 0..(n - 2) : data[p + k + 1] >= 128
    /\ data[p + n] < 128

\* the encoding at p..p+n-1 has at most 4 significant base-128 groups
AtMostFourGroups(p, n) == \A k \in 0..(n - 5) : data[p + k + 1] = 128

\* the integer the groups at p..p+n-1 denote, most significant group first
RECURSIVE GroupsValue(_, _)
GroupsValue(p, n) ==
    IF n = 0 THEN 0
    ELSE GroupsValue(p, n - 1) * 128 + (data[p + n] % 128)

\* longest encoding looked for
MaxVarBytes == 5

\* the position the next call of readVarLength starts from, if the next step
\* of the decoder makes one: a delta time, a meta length, a sysex length
VarLengthCallSites ==
    IF pc = "while" /\ pos < trackEnd THEN {pos}
    ELSE IF pc = "event" /\ ByteAt(pos) = 255 THEN {pos + 2}
    ELSE IF pc = "event" /\ ByteAt(pos) \in {240, 247} THEN {pos + 1}
    ELSE {}

\* C5: when readVarLength is called where the buffer holds an encoding of an
\* integer V of at most 4 base-128 groups, it returns V and leaves the cursor
\* right behind the encoding; the single byte 0 decodes to 0 in one byte.
C5_VarLengthDecode ==
    \A p \in VarLengthCallSites : \A n \in 1..MaxVarBytes :
        (IsEncoding(p, n) /\ AtMostFourGroups(p, n))
            => ReadVarLength(p) = [value |-> GroupsValue(p, n), pos |-> p + n]

\* a delta time of 4 groups, and one of 5 bytes, have been read by the loop
C5_Witness ==
    /\ pc = "event"
    /\ deltaSum \in {268435455, 128}
    /\ (IsEncoding(pos - 4, 4) \/ IsEncoding(pos - 5, 5))

\* the event at the cursor starts with a channel-voice status byte and both
\* of its data bytes are in the buffer
ExplicitStatus ==
    /\ pc = "event"
    /\ ByteAt(pos) \in (128..255) \ {255, 240, 247}
    /\ pos + 2 < Len(data)

\* C6: an event with an explicit channel-voice status byte S and data bytes
\* data1, data2 takes exactly three bytes and adds exactly the one Note-On
\* (S & 0xF0 = 0x90, data2 > 0) or Note-Off (0x80, or 0x90 with data2 = 0) at
\* the current time, and nothing for every other message kind.
C6_ChannelVoice ==
    [][ExplicitStatus
        => /\ pos' = pos + 3
           /\ events' = events \o Expected(ByteAt(pos), ByteAt(pos + 1),
                                           ByteAt(pos + 2), currentTime)]_vars

\* a Note-On of velocity 0 has just been decoded, as a Note-Off
C6_Witness ==
    /\ pc = "while"
    /\ runningStatus = 144
    /\ pos >= 3 /\ ByteAt(pos - 3) = 144 /\ ByteAt(pos - 1) = 0
    /\ events # <<>>
    /\ events[Len(events)] = NoteOff(currentTime, ByteAt(pos - 2))

\* C7: an event added to the track carries the sum of all delta times read in
\* the track so far, whatever events the deltas belonged to; the scenario
\* Note-On 60/64, +96 Note-Off 60, end-of-track gives one track of two events
\* at 0 and 96 and maxTime 96.
C7_AbsoluteTime ==
    /\ [][(pc = "event" /\ events' # events)
            => /\ Len(events') = Len(events) + 1
               /\ SubSeq(events', 1, Len(events)) = events
               /\ events'[Len(events')].time = deltaSum]_vars
    /\ [](pc = "done" /\ data = ScenarioNotes
            => /\ result.tracks = <<[events |-> <<NoteOn(0, 60, 64), NoteOff(96, 60)>>]>>
               /\ result.maxTime = 96)

\* an event was added after deltas of dropped events and of its own were summed
C7_Witness ==
    /\ pc = "while"
    /\ Len(events) = 1
    /\ events[1].time = 192
    /\ deltaSum = 192

\* C8: the decoder goes on after a 4-byte chunk tag only if the tag is the
\* expected one: a Sequence is returned only for a header tagged MThd, and
\* events of a track are decoded only for a track tagged MTrk.
C8_TagsValidated ==
    /\ (pc = "done" /\ Len(header) = 4) => header = MThd
    /\ (pc \in {"while", "event"} /\ Len(trackHeader) = 4) => trackHeader = MTrk

\* C9: between two events of a track the cursor is never beyond the track's
\* end offset, so parseTrack returns with the cursor exactly at the end offset.
C9_NoTrackOverrun ==
    pc = "while" => pos <= trackEnd

\* C10: no event that starts with a data byte is consumed while no channel
\* status byte has been seen in the track.
C10_MalformedRunningStatus ==
    [][~(LeadingDataByte /\ runningStatus = 0 /\ pc' = "while")]_vars

\* C11: every turn of the while loop of parseTrack, a delta time and its
\* event, leaves the cursor beyond the offset the turn started from, so the
\* loop comes to trackEnd and parse() to its return.
C11_LoopProgress ==
    [][(pc = "event" /\ pc' = "while") => pos' > iterStart]_vars

\* C12: the cursor is never outside the buffer.
C12_CursorInBounds == 0 <= pos /\ pos <= Len(data)

\* C13: no step of parse() moves the cursor backwards.
C13_CursorMonotone == [][pos' >= pos]_vars

\* C16: a call of readVarLength takes at most 4 continuation bytes and a last
\* byte, and its result is never negative.
C16_VarLengthCapped ==
    \A p \in VarLengthCallSites :
        /\ ReadVarLength(p).pos - p <= 5
        /\ ReadVarLength(p).value >= 0

\* the declared length of the header chunk, bytes 4..7 of the buffer
HeaderLength == ReadInt32(4).value

\* C14: behind a header chunk of declared length L >= 6 that the buffer holds
\* whole, the cursor stands at offset 8 + L, where the first track chunk starts.
C14_HeaderResync ==
    [][(pc = "parse" /\ HeaderLength >= 6 /\ Len(data) >= 8 + HeaderLength)
        => pos' = 8 + HeaderLength]_vars

\* C17: the chunk length parseTrack adds to the cursor is the unsigned
\* big-endian value of the four length bytes, so trackEnd is not below the
\* position that follows them.
C17_UnsignedLength ==
    [][(pc = "for" /\ pc' = "while" /\ pos + 8 <= Len(data))
        => LET len == trackEnd' - pos'
           IN  /\ len >= 0
               /\ len \div 16777216 = data[pos + 5]
               /\ len % 16777216 = data[pos + 6] * 65536 + data[pos + 7] * 256
                                   + data[pos + 8]]_vars

\* the event at the cursor is a meta event / a sysex or escape event
MetaAtCursor == pc = "event" /\ ByteAt(pos) = 255
SysExAtCursor == pc = "event" /\ ByteAt(pos) \in {240, 247}

\* the step frames an event whose size field is the n bytes at p: the cursor
\* does not end before the end of the size field and, the size N being of at
\* most 4 groups, ends right behind the N payload bytes; nothing is added to
\* the track, the running status stays, the loop goes on from there
FramedFrom(p, n) ==
    /\ pos' >= p + n
    /\ AtMostFourGroups(p, n) => pos' = p + n + GroupsValue(p, n)
    /\ events' = events
    /\ runningStatus' = runningStatus
    /\ pc' = "while"

\* C15: a meta event takes its status byte, its type byte, the size N and N
\* payload bytes, a sysex or escape event its status byte, the size N and N
\* payload bytes; neither adds an event nor changes the running status, and
\* the next delta time is read right behind the payload.
C15_MetaSysExFraming ==
    [][\A n \in 1..MaxVarBytes :
        /\ (MetaAtCursor /\ IsEncoding(pos + 2, n)) => FramedFrom(pos + 2, n)
        /\ (SysExAtCursor /\ IsEncoding(pos + 1, n)) => FramedFrom(pos + 1, n)]_vars

MonotoneTracks(md) == \A k \in 1..Len(md.tracks) : NonDecreasing(md.tracks[k].events)

\* C18: a conversion of a Sequence whose tracks each have non-decreasing
\* event times gives only notes of duration >= 0.
C18_DurationsNonNegative ==
    [][(pc = "idle" /\ notes' # notes /\ MonotoneTracks(midiData))
        => \A k \in 1..Len(notes') : notes'[k].duration >= 0]_vars

\* C19: while no handler runs, a non-null midiData is the parse result of the
\* file recorded in currentMidiFile, and with no file recorded the convert
\* button is disabled.
C19_MidiDataOfCurrentFile ==
    pc = "idle" =>
        /\ midiData # Null =>
              (currentMidiFile # Null /\ data = currentMidiFile.bytes)
        /\ currentMidiFile = Null => convertDisabled
====
